---- MODULE Spec2Model ----
(***************************************************************************)
(* A model of the Mandelbrot renderer of src/src/main.rs: the pixel to     *)
(* point mapping, the escape-time iteration, the intensity mapping, the    *)
(* Image buffer (new, get_indices, render, row indexing) and the band      *)
(* partitioning block of main.                                             *)
(*                                                                         *)
(* f64 is modelled as a binary floating-point format with round to nearest *)
(* (ties to even) and gradual underflow, of precision PREC bits instead of *)
(* 53: a value is the integer number of units of 2^-FRAC it equals, and    *)
(* every arithmetic operation rounds its exact result to PREC significant  *)
(* bits.                                                                   *)
(*                                                                         *)
(* Three specifications share the variables:                               *)
(*   SpecPure   one call of pixel_to_point, escape_time or escape_color;   *)
(*   Spec       an Image after Image::new, under render and row indexing;  *)
(*   SpecBands  the band block of main (lines 34-60, commented out in this *)
(*              file): the buffer split by chunks_mut and one worker per   *)
(*              band, the workers interleaved entry by entry.  The         *)
(*              function render(band, ..) the workers call is not in the   *)
(*              file; band_pixel gives it the pixel function of            *)
(*              Image::render.                                             *)
(***************************************************************************)
EXTENDS Integers, Sequences, FiniteSets, TLC

\* ------------------------------------------------------------------ bounds

\* precision (significant bits) of the modelled floating-point format
PREC == 8
\* the smallest positive value of the format is 2^-FRAC
FRAC == 8
\* largest image width and height drawn
MaxW == 3
MaxH == 3
\* largest worker count drawn for the band partitioning
MaxThreads == 4
\* largest explicit iteration limit handed to escape_time
MaxLimit == 4
\* largest row index handed to Index / IndexMut
MaxRow == 4

\* ------------------------------------------------------------- f64 model

Pow2(n) == 2 ^ n

\* the number of bits of n, for 0 <= n < 2^31
BitLen(n) == Cardinality({b \in 0..30 : Pow2(b) <= n})

\* the spacing of the floats around a magnitude of bit length bl
Quantum(bl) == Pow2(IF bl > PREC THEN bl - PREC ELSE 0)

\* k + r/d rounded to an integer, ties to even
NearestInt(k, r, d) ==
    IF (2 * r > d) \/ (2 * r = d /\ k % 2 = 1) THEN k + 1 ELSE k

\* the multiple of q nearest to a/den
RoundTo(a, den, q) == q * NearestInt(a \div (den * q), a % (den * q), den * q)

\* the float nearest to a/den for a >= 0 (in units of 2^-FRAC)
RoundMag(a, den) == RoundTo(a, den, Quantum(BitLen(a \div den)))

\* the float nearest to the rational num/den, ties to even
RoundQ(num, den) ==
    IF num < 0 THEN -RoundMag(-num, den) ELSE RoundMag(num, den)

One == Pow2(FRAC)

\* `n as f64` for a usize n
FromUsize(n) == RoundQ(n * One, 1)
\* the f64 nearest to n/256: Lit(-320) is -1.25
Lit(n) == RoundQ(n * Pow2(FRAC - 8), 1)

FAdd(a, b) == RoundQ(a + b, 1)
FSub(a, b) == RoundQ(a - b, 1)
FMul(a, b) == RoundQ(a * b, One)
FDiv(a, b) == RoundQ(a * One, b)

Cplx(re, im) == [re |-> re, im |-> im]

\* Complex<f64> multiplication, addition and squared norm (num-complex)
CMul(a, b) ==
    Cplx(FSub(FMul(a.re, b.re), FMul(a.im, b.im)),
         FAdd(FMul(a.re, b.im), FMul(a.im, b.re)))
CAdd(a, b) == Cplx(FAdd(a.re, b.re), FAdd(a.im, b.im))
norm_sqr(z) == FAdd(FMul(z.re, z.re), FMul(z.im, z.im))

\* ---------------------------------------------------------- Option, panic

None == [tag |-> "None"]
Some(v) == [tag |-> "Some", val |-> v]
Panic == [tag |-> "panic"]
Ok(v) == [tag |-> "ok", val |-> v]
Pending == [tag |-> "pending"]

\* ------------------------------------------- unsigned integers of any width
\* A value of an unsigned type is its little-endian sequence of base-2^16
\* digits (one digit for u8 and u16, two for u32, four for u64).

Base == Pow2(16)

Digits(bits) == IF bits <= 16 THEN 1 ELSE bits \div 16

\* P::max_value()
max_value(bits) == [k \in 1..Digits(bits) |-> IF bits = 8 THEN 255 ELSE Base - 1]
\* P::default()
default(bits) == [k \in 1..Digits(bits) |-> 0]

\* a u32 from a loop counter
U32(i) == <<i % Base, i \div Base>>

\* i < limit for two u32 values
U32Less(a, b) == a[2] < b[2] \/ (a[2] = b[2] /\ a[1] < b[1])

\* ToPrimitive::to_u32: None when the value does not fit 32 bits
to_u32(v) ==
    IF \E k \in 3..Len(v) : v[k] # 0
    THEN None
    ELSE Some(<<v[1], IF Len(v) >= 2 THEN v[2] ELSE 0>>)

\* FromPrimitive::from_u32 into the type of the given width
from_u32(bits, n) ==
    IF bits = 8 THEN (IF n[2] = 0 /\ n[1] <= 255 THEN Some(<<n[1]>>) ELSE None)
    ELSE IF bits = 16 THEN (IF n[2] = 0 THEN Some(<<n[1]>>) ELSE None)
    ELSE Some([k \in 1..Digits(bits) |-> IF k <= 2 THEN n[k] ELSE 0])

RECURSIVE SubDigits(_, _, _, _)
SubDigits(a, b, k, borrow) ==
    IF k > Len(a) THEN <<>>
    ELSE LET d == a[k] - b[k] - borrow
         IN IF d < 0 THEN <<d + Base>> \o SubDigits(a, b, k + 1, 1)
            ELSE <<d>> \o SubDigits(a, b, k + 1, 0)

\* a - b in the pixel type (a >= b)
Sub(a, b) == SubDigits(a, b, 1, 0)

\* the integer a one-digit value equals
Val(v) == v[1]

\* --------------------------------------------------------- pixel_to_point

\* pixel_to_point with the vertical axis not inverted
pixel_to_point_unflipped(bounds, pixel, upper_left, lower_right) ==
    LET w == FSub(lower_right.re, upper_left.re)
        h == FSub(upper_left.im, lower_right.im)
    IN Cplx(FAdd(upper_left.re,
                 FDiv(FMul(FromUsize(pixel[1]), w), FromUsize(bounds[1]))),
            FAdd(upper_left.im,
                 FDiv(FMul(FromUsize(pixel[2]), h), FromUsize(bounds[2]))))

pixel_to_point(bounds, pixel, upper_left, lower_right) ==
    LET w == FSub(lower_right.re, upper_left.re)
        h == FSub(upper_left.im, lower_right.im)
    IN Cplx(FAdd(upper_left.re,
                 FDiv(FMul(FromUsize(pixel[1]), w), FromUsize(bounds[1]))),
            FSub(upper_left.im,
                 FDiv(FMul(FromUsize(pixel[2]), h), FromUsize(bounds[2]))))

\* ------------------------------------------------------------ escape_time

Four == 4 * One

\* the state of the loop `for i in 0..limit`: z, the counter i and, once the
\* function has returned, its result
LoopInit == [z |-> Cplx(0, 0), i |-> 0, res |-> Pending]

\* the test of the updated z that ends iteration i
escape_test(i, z) ==
    IF norm_sqr(z) > Four
    THEN [z |-> z, i |-> i, res |-> Some(i)]
    ELSE [z |-> z, i |-> i + 1, res |-> Pending]

escape_test_ge(i, z) ==
    IF norm_sqr(z) >= Four
    THEN [z |-> z, i |-> i, res |-> Some(i)]
    ELSE [z |-> z, i |-> i + 1, res |-> Pending]

\* the loop's iteration with the test `>= 4.0`
loop_step_ge(c, limit, st) ==
    IF st.res # Pending THEN st
    ELSE IF ~U32Less(U32(st.i), limit) THEN [st EXCEPT !.res = None]
    ELSE CHOOSE r \in {escape_test_ge(st.i, z) :
                           z \in {CAdd(q, c) : q \in {CMul(st.z, st.z)}}} : TRUE

\* one iteration of the loop (none once the function has returned): z *= z
\* gives q, z += self gives z, then the test
loop_step(c, limit, st) ==
    IF st.res # Pending THEN st
    ELSE IF ~U32Less(U32(st.i), limit) THEN [st EXCEPT !.res = None]
    ELSE CHOOSE r \in {escape_test(st.i, z) :
                           z \in {CAdd(q, c) : q \in {CMul(st.z, st.z)}}} : TRUE

\* 4^k iterations of the loop, one quarter after the other
RECURSIVE loop_run(_, _, _, _)
loop_run(c, limit, st, k) ==
    IF k = 0 THEN loop_step(c, limit, st)
    ELSE CHOOSE r \in {loop_run(c, limit, s3, k - 1) :
                 s3 \in {loop_run(c, limit, s2, k - 1) :
                 s2 \in {loop_run(c, limit, s1, k - 1) :
                 s1 \in {loop_run(c, limit, st, k - 1)}}}} : TRUE

\* the loop run to its return, in blocks of 4^k, 4^(k+1), .. iterations
RECURSIVE loop_all(_, _, _, _)
loop_all(c, limit, st, k) ==
    IF st.res # Pending THEN st
    ELSE CHOOSE r \in {loop_all(c, limit, s, k + 1) :
                           s \in {loop_run(c, limit, st, k)}} : TRUE

escape_time(c, limit) == loop_all(c, limit, LoopInit, 0).res

\* ----------------------------------------------------------- escape_color

\* .unwrap() of an Option
unwrap(o) == IF o.tag = "None" THEN Panic ELSE Ok(o.val)

\* P::max_value() - P::from_u32(count).unwrap()
color_of_count(bits, n) ==
    IF n.tag = "panic" THEN Panic ELSE Ok(Sub(max_value(bits), n.val))

\* the if let of escape_color on the result t of escape_time
color_of_time(bits, t) ==
    IF t.tag = "Some" THEN color_of_count(bits, unwrap(from_u32(bits, U32(t.val))))
    ELSE Ok(default(bits))

color_of_time_dim(bits, t) ==
    IF t.tag = "Some"
    THEN color_of_count(bits, unwrap(from_u32(bits, U32(t.val + 1))))
    ELSE Ok(default(bits))

\* escape_color once the limit is converted: lim is max_value().to_u32()
color_within(bits, c, lim) ==
    IF lim.tag = "None" THEN Panic ELSE color_of_time(bits, escape_time(c, lim.val))

color_within_dim(bits, c, lim) ==
    IF lim.tag = "None" THEN Panic
    ELSE color_of_time_dim(bits, escape_time(c, lim.val))

\* escape_color counting the iterations from 1
escape_color_dim(bits, c) ==
    color_within_dim(bits, c, to_u32(max_value(bits)))

escape_color(bits, c) ==
    color_within(bits, c, to_u32(max_value(bits)))

\* ------------------------------------------------------------------ Image

\* the pixel type of the image main builds (Image<u8>, the one with to_file)
PixelType == 8

\* Image::new allocating width + height entries
new_sum(width, height) ==
    [width |-> width, height |-> height,
     pixels |-> [k \in 1..(width + height) |-> default(PixelType)]]

\* Image::new
new(width, height) ==
    [width |-> width, height |-> height,
     pixels |-> [k \in 1..(width * height) |-> default(PixelType)]]

\* the loop of get_indices: cols and rows after the rows from `row` on
RECURSIVE extend_cols(_, _, _)
extend_cols(width, height, row) ==
    IF row >= height THEN <<>>
    ELSE [k \in 1..width |-> k - 1] \o extend_cols(width, height, row + 1)

RECURSIVE extend_rows(_, _, _)
extend_rows(width, height, row) ==
    IF row >= height THEN <<>>
    ELSE [k \in 1..width |-> row] \o extend_rows(width, height, row + 1)

Min(a, b) == IF a <= b THEN a ELSE b

\* cols.into_iter().zip(rows.into_iter()).collect()
zip(cols, rows) == [k \in 1..Min(Len(cols), Len(rows)) |-> <<cols[k], rows[k]>>]

zip_rev(cols, rows) == [k \in 1..Min(Len(cols), Len(rows)) |-> <<rows[k], cols[k]>>]

\* get_indices zipping the rows before the columns
get_indices_transposed(im) ==
    zip_rev(extend_cols(im.width, im.height, 0), extend_rows(im.width, im.height, 0))

\* Image::get_indices: the zip of the column and the row coordinates
get_indices(im) ==
    zip(extend_cols(im.width, im.height, 0), extend_rows(im.width, im.height, 0))

\* viewports <<upper_left, lower_right>>, in 256ths
Viewports ==
    { <<Cplx(Lit(-256), Lit(256)), Cplx(Lit(256), Lit(-256))>>,
      <<Cplx(Lit(-512), Lit(256)), Cplx(Lit(256), Lit(-256))>>,
      <<Cplx(Lit(-255), Lit(258)), Cplx(Lit(258), Lit(-255))>>,
      <<Cplx(Lit(-192), Lit(171)), Cplx(Lit(64), Lit(0))>>,
      <<Cplx(Lit(-128), Lit(128)), Cplx(Lit(-128), Lit(128))>>,
      <<Cplx(Lit(256), Lit(-256)), Cplx(Lit(-256), Lit(256))>> }

\* the points Image::render maps the index pairs to
points_of(im, indices, upper_left, lower_right) ==
    [k \in 1..Len(indices) |->
        pixel_to_point(<<im.width, im.height>>, indices[k], upper_left, lower_right)]

render_points(im, upper_left, lower_right) ==
    points_of(im, get_indices(im), upper_left, lower_right)

\* The colour of every point the whole-image renders of the viewports reach,
\* computed once by escape_color: a table that saves the repeated iteration.
RenderedPoints ==
    { pixel_to_point(<<w, h>>, <<c, r>>, v[1], v[2]) :
        w \in 1..MaxW, h \in 1..MaxH, c \in 0..(MaxW - 1), r \in 0..(MaxH - 1),
        v \in Viewports }

ColorTable == [c \in RenderedPoints |-> escape_color(PixelType, c)] @@ <<>>

\* point.escape_color() at the image's pixel type
color_of(point) ==
    IF point \in DOMAIN ColorTable THEN ColorTable[point]
    ELSE escape_color(PixelType, point)

\* the colours render maps the points to
colors_of(points) == [k \in 1..Len(points) |-> color_of(points[k])]

\* self.pixels = the collected colours, unless a colour panicked
store(im, colors) ==
    IF \E k \in 1..Len(colors) : colors[k] = Panic THEN Panic
    ELSE Ok([im EXCEPT !.pixels = [k \in 1..Len(colors) |-> colors[k].val]])

\* render rejecting a viewport with equal or inverted corners
render_checked(im, upper_left, lower_right) ==
    IF upper_left.re >= lower_right.re \/ upper_left.im <= lower_right.im
    THEN Panic
    ELSE store(im, colors_of(render_points(im, upper_left, lower_right)))

\* Image::render: the image afterwards, or Panic
render(im, upper_left, lower_right) ==
    store(im, colors_of(render_points(im, upper_left, lower_right)))

\* Index::index and IndexMut::index_mut: the row's slice of pixels, or Panic
\* when the range start..start + width does not lie within the buffer
index(im, row) ==
    LET start == row * im.width
    IN IF start + im.width > Len(im.pixels) THEN Panic
       ELSE Ok([start |-> start,
                data |-> SubSeq(im.pixels, start + 1, start + im.width)])

index_mut(im, row) ==
    LET start == row * im.width
    IN IF start + im.width > Len(im.pixels) THEN Panic
       ELSE Ok([start |-> start,
                data |-> SubSeq(im.pixels, start + 1, start + im.width)])

\* ------------------------------------------------- band partitioning (main)

\* rows_per_band without the + 1
rows_per_band_floor(bounds, threads) == bounds[2] \div threads

\* rows_per_band of the band block of main
rows_per_band(bounds, threads) == bounds[2] \div threads + 1

\* <[T]>::chunks_mut: the <<start, len>> of the consecutive chunks of a buffer
\* of `len` entries, from entry `start` on; a chunk size of 0 panics
RECURSIVE chunks_from(_, _, _)
chunks_from(len, size, start) ==
    IF start >= len THEN <<>>
    ELSE <<[start |-> start, len |-> Min(size, len - start)]>>
         \o chunks_from(len, size, start + size)

chunks_mut(len, size) ==
    IF size = 0 THEN Panic ELSE Ok(chunks_from(len, size, 0))

\* the parameters the band block computes for chunk i (counted from 0)
band_of(bounds, threads, upper_left, lower_right, chunk, i) ==
    LET top == rows_per_band(bounds, threads) * i
        height == chunk.len \div bounds[1]
    IN [start |-> chunk.start, len |-> chunk.len,
        top |-> top, height |-> height,
        bounds |-> <<bounds[1], height>>,
        upper_left |-> pixel_to_point(bounds, <<0, top>>, upper_left, lower_right),
        lower_right |-> pixel_to_point(bounds, <<bounds[1], top + height>>,
                                       upper_left, lower_right)]

\* the bands of an image for a worker count, or Panic
partition(im, threads, upper_left, lower_right) ==
    LET bounds == <<im.width, im.height>>
        chunks == chunks_mut(Len(im.pixels), rows_per_band(bounds, threads) * im.width)
    IN IF chunks = Panic THEN Panic
       ELSE Ok([i \in 1..Len(chunks.val) |->
                  band_of(bounds, threads, upper_left, lower_right,
                          chunks.val[i], i - 1)])

\* the value a band's worker writes to entry k (from 0) of its slice: the
\* pixels of the band row-major, each from the band's own sub-viewport
band_pixel(band, k) ==
    color_of(pixel_to_point(band.bounds,
                            <<k % band.bounds[1], k \div band.bounds[1]>>,
                            band.upper_left, band.lower_right))

\* ------------------------------------------------------------------ state

VARIABLES
    call,   \* the pure function applied and its arguments
    ret,    \* what the call returned (Pending before it ran)
    img,    \* the Image: width, height, pixels
    op,     \* the last operation on the image and its outcome
    job,    \* the band block's inputs: worker count and viewport
    bands,  \* the bands handed to the workers, each with its worker's position
    writes, \* for every entry of the buffer, the workers that wrote it, in order
    phase   \* unrendered, rendering, complete or panic

vars == <<call, ret, img, op, job, bands, writes, phase>>

bandVars == <<job, bands, writes, phase>>

NoCall == [fn |-> "none"]
NoImage == [width |-> 0, height |-> 0, pixels |-> <<>>]
NoOp == [name |-> "none"]
NoJob == [threads |-> 0]
NoBands ==
    /\ job = NoJob
    /\ bands = <<>>
    /\ writes = <<>>
    /\ phase = "none"

\* ------------------------------------------------- inputs of the functions

\* the pixel types escape_color is instantiated with
PixelBits == {8, 16, 32, 64}

\* points c = a/4 + (b/4) i around the Mandelbrot set
Points == {Cplx(Lit(64 * a), Lit(64 * b)) : a \in -9..9, b \in -5..5}

PointCalls ==
    { [fn |-> "pixel_to_point", bounds |-> b, pixel |-> p, ul |-> v[1], lr |-> v[2]] :
        b \in (1..MaxW) \X (1..MaxH), p \in (0..MaxW) \X (0..MaxH), v \in Viewports }

\* the call of test_pixel_to_point
TestCall ==
    [fn |-> "pixel_to_point", bounds |-> <<100, 100>>, pixel |-> <<25, 75>>,
     ul |-> Cplx(Lit(-256), Lit(256)), lr |-> Cplx(Lit(256), Lit(-256))]

TimeCalls ==
    { [fn |-> "escape_time", c |-> c, limit |-> l] : c \in Points, l \in 1..MaxLimit }

\* the points that leave the disc within the 8-bit limit
Diverging == {c \in Points : escape_time(c, U32(255)).tag = "Some"}

ColorCalls ==
    { [fn |-> "escape_color", bits |-> b, c |-> c] : b \in {8}, c \in Points }
    \cup { [fn |-> "escape_color", bits |-> b, c |-> c] : b \in PixelBits, c \in Diverging }

Calls ==
    { k \in PointCalls : k.pixel[1] <= k.bounds[1] /\ k.pixel[2] <= k.bounds[2] }
    \cup {TestCall} \cup TimeCalls \cup ColorCalls

\* ----------------------------------------------------------------- actions

InitPure ==
    /\ call \in Calls
    /\ ret = Pending
    /\ img = NoImage
    /\ op = NoOp
    /\ NoBands

CallPixelToPoint ==
    /\ call.fn = "pixel_to_point"
    /\ ret = Pending
    /\ ret' = Ok(pixel_to_point(call.bounds, call.pixel, call.ul, call.lr))
    /\ UNCHANGED <<call, img, op, bandVars>>

CallEscapeTime ==
    /\ call.fn = "escape_time"
    /\ ret = Pending
    /\ ret' = escape_time(call.c, U32(call.limit))
    /\ UNCHANGED <<call, img, op, bandVars>>

CallEscapeColor ==
    /\ call.fn = "escape_color"
    /\ ret = Pending
    /\ ret' = escape_color(call.bits, call.c)
    /\ UNCHANGED <<call, img, op, bandVars>>

NextPure == CallPixelToPoint \/ CallEscapeTime \/ CallEscapeColor

SpecPure == InitPure /\ [][NextPure]_vars

\* ------------------------------------------------------- the image's actions

Init ==
    /\ \E w \in 0..MaxW, h \in 0..MaxH : img = new(w, h)
    /\ op = [name |-> "new"]
    /\ call = NoCall
    /\ ret = Pending
    /\ NoBands

\* img.render(upper_left, lower_right)
Render ==
    \E v \in Viewports :
        \E r \in {render(img, v[1], v[2])} :
            /\ img' = IF r = Panic THEN img ELSE r.val
            /\ op' = [name |-> "render", ul |-> v[1], lr |-> v[2], out |-> r.tag,
                      evals |-> Len(render_points(img, v[1], v[2]))]
            /\ UNCHANGED <<call, ret, bandVars>>

\* &img[row]
Index ==
    \E row \in 0..MaxRow :
        /\ op' = [name |-> "index", row |-> row, out |-> index(img, row)]
        /\ UNCHANGED <<call, ret, img, bandVars>>

\* &mut img[row]
IndexMut ==
    \E row \in 0..MaxRow :
        /\ op' = [name |-> "index_mut", row |-> row, out |-> index_mut(img, row)]
        /\ UNCHANGED <<call, ret, img, bandVars>>

Next == Render \/ Index \/ IndexMut

Spec == Init /\ [][Next]_vars

\* ---------------------------------------------------- the band block's actions

\* the viewports the band block is run on
BandViewports ==
    { <<Cplx(Lit(-512), Lit(256)), Cplx(Lit(256), Lit(-256))>>,
      <<Cplx(Lit(-146), Lit(300)), Cplx(Lit(4), Lit(224))>>,
      <<Cplx(Lit(-256), Lit(256)), Cplx(Lit(256), Lit(-256))>> }

InitBands ==
    /\ \E w \in 0..MaxW, h \in 0..MaxH : img = new(w, h)
    /\ \E t \in 1..MaxThreads, v \in BandViewports :
          job = [threads |-> t, upper_left |-> v[1], lower_right |-> v[2]]
    /\ bands = <<>>
    /\ writes = [k \in 1..Len(img.pixels) |-> <<>>]
    /\ phase = "unrendered"
    /\ op = [name |-> "new"]
    /\ call = NoCall
    /\ ret = Pending

\* the buffer is split into bands and one worker per band is spawned
Partition ==
    /\ phase = "unrendered"
    /\ \E p \in {partition(img, job.threads, job.upper_left, job.lower_right)} :
          IF p = Panic
          THEN phase' = "panic" /\ UNCHANGED bands
          ELSE /\ phase' = "rendering"
               /\ bands' = [i \in 1..Len(p.val) |-> [band |-> p.val[i], pos |-> 0]]
    /\ UNCHANGED <<call, ret, img, op, job, writes>>

\* the worker of band i writes the next entry of its slice
Work ==
    \E i \in 1..Len(bands) :
        LET b == bands[i].band
            k == bands[i].pos
            v == band_pixel(b, k)
        IN /\ phase = "rendering"
           /\ k < b.len
           /\ img' = [img EXCEPT !.pixels[b.start + k + 1] = v.val]
           /\ writes' = [writes EXCEPT ![b.start + k + 1] = Append(@, i)]
           /\ bands' = [bands EXCEPT ![i].pos = k + 1]
           /\ UNCHANGED <<call, ret, op, job, phase>>

\* the scope ends once every worker has returned
Join ==
    /\ phase = "rendering"
    /\ \A i \in 1..Len(bands) : bands[i].pos = bands[i].band.len
    /\ phase' = "complete"
    /\ UNCHANGED <<call, ret, img, op, job, bands, writes>>

NextBands == Partition \/ Work \/ Join

SpecBands == InitBands /\ [][NextBands]_vars

\* --------------------------------------------------- claims: pure functions

IsCall(fn) == call.fn = fn /\ ret # Pending

\* x is a value of the format: rounding leaves it alone
Rep(x) == RoundQ(x, 1) = x

\* the exact value ul + n * (lr - ul) / d when no operation of the
\* interpolation rounds, and "inexact" when one does
ExactLerp(ul, lr, n, d) ==
    LET span == lr - ul
        prod == n * span
    IN IF /\ Rep(n * One) /\ Rep(d * One) /\ Rep(span) /\ Rep(prod)
          /\ prod % d = 0 /\ Rep(prod \div d) /\ Rep(ul + prod \div d)
       THEN Ok(ul + prod \div d)
       ELSE [tag |-> "inexact"]

ValidViewport(ul, lr) == ul.re < lr.re /\ ul.im > lr.im

\* C4 as stated: on every valid viewport pixel (0,0) maps exactly to the upper
\* left corner, pixel (width,height) exactly to the lower right corner, and
\* the call of test_pixel_to_point gives (-0.5,-0.5).
C4_CornersMapExactly ==
    (IsCall("pixel_to_point") /\ ValidViewport(call.ul, call.lr)) =>
        /\ call.pixel = <<0, 0>> => ret.val = call.ul
        /\ call.pixel = call.bounds => ret.val = call.lr
        /\ call = TestCall => ret.val = Cplx(Lit(-128), Lit(-128))

\* C4 amended: pixel_to_point is the affine interpolation evaluated in floating
\* point. It equals the exact value ul.re + col*(lr.re-ul.re)/width,
\* ul.im - row*(ul.im-lr.im)/height (vertical axis inverted) whenever no
\* operation rounds; pixel (0,0) maps exactly to ul; pixel (width,height) maps
\* exactly to lr when the span and the product are exact; (100,100),
\* (-1,1)..(1,-1), (25,75) maps to (-0.5,-0.5).
C4_AffineWhenExact ==
    IsCall("pixel_to_point") =>
        LET re == ExactLerp(call.ul.re, call.lr.re, call.pixel[1], call.bounds[1])
            im == ExactLerp(call.ul.im, call.lr.im, call.pixel[2], call.bounds[2])
        IN /\ re.tag = "ok" => ret.val.re = re.val
           /\ im.tag = "ok" => ret.val.im = im.val
           /\ call.pixel = <<0, 0>> => ret.val = call.ul
           /\ (call.pixel = call.bounds /\ re.tag = "ok" /\ im.tag = "ok")
                 => ret.val = call.lr
           /\ call = TestCall => ret.val = Cplx(Lit(-128), Lit(-128))

\* the test's call has returned (-0.5,-0.5)
C4_Witness ==
    IsCall("pixel_to_point") /\ call = TestCall /\ ret.val = Cplx(Lit(-128), Lit(-128))

\* z after k + 1 updates of z0 = 0, z := z*z + c
RECURSIVE Orbit(_, _)
Orbit(c, k) ==
    CHOOSE r \in {CAdd(q, c) :
                     q \in {CMul(z, z) :
                     z \in {IF k = 0 THEN Cplx(0, 0) ELSE Orbit(c, k - 1)}}} : TRUE

Escaped(c, k) == \E z \in {Orbit(c, k)} : norm_sqr(z) > Four

LimitOf(bits) == to_u32(max_value(bits)).val

\* C6: the intensity is the default value 0 when escape_time is Bounded and
\* max_value - n when it is Divergent(n): max_value at n = 0, never the Bounded
\* value, so a pixel is black exactly when its point was classified Bounded.
C6_IntensityMapping ==
    (IsCall("escape_color") /\ call.bits # 64) =>
        LET t == escape_time(call.c, LimitOf(call.bits))
        IN /\ ret.tag = "ok"
           /\ ret.val = default(call.bits) <=> t.tag = "None"
           /\ (t.tag = "Some" /\ t.val = 0) => ret.val = max_value(call.bits)
           /\ (t.tag = "Some" /\ call.bits = 8) =>
                 /\ t.val \in 0..254
                 /\ Val(ret.val) = 255 - t.val
           /\ (t.tag = "Some" /\ call.bits = 16) => Val(ret.val) = 65535 - t.val

\* an 8-bit intensity strictly between black and max_value
C6_Witness ==
    /\ IsCall("escape_color") /\ call.bits = 8
    /\ ret.tag = "ok" /\ Val(ret.val) \in 1..254

\* C7: for every unsigned pixel type, 8, 16, 32 or 64 bits wide, escape_color
\* derives its limit, converts the count and returns an intensity without a
\* failed conversion or panic.
C7_EveryWidthWorks ==
    IsCall("escape_color") => ret.tag = "ok"

\* ------------------------------------------------------- claims: the image

Rendered == op.name = "render"

\* C1: after render on an image of width w > 0 and height h > 0 the buffer has
\* w*h entries and the entry at flat index r*w + c is
\* escape_color(pixel_to_point((w,h), (c,r), upper_left, lower_right)),
\* whatever the buffer held before.
C1_RenderIsPixelFunction ==
    (Rendered /\ img.width > 0 /\ img.height > 0) =>
        /\ op.out = "ok"
        /\ Len(img.pixels) = img.width * img.height
        /\ \A c \in 0..(img.width - 1), r \in 0..(img.height - 1) :
              Ok(img.pixels[r * img.width + c + 1]) =
                 escape_color(PixelType,
                     pixel_to_point(<<img.width, img.height>>, <<c, r>>, op.ul, op.lr))

\* a rendered image wider than high whose pixels are not all alike
C1_Witness ==
    /\ Rendered /\ img.width = 3 /\ img.height = 2
    /\ \E j, k \in 1..Len(img.pixels) : img.pixels[j] # img.pixels[k]

\* C8: with zero width or zero height Image::new yields an empty buffer and
\* render is a no-op: it completes, evaluates pixel_to_point for no pixel and
\* leaves the buffer empty.
C8_ZeroDimensionNoOp ==
    (img.width = 0 \/ img.height = 0) =>
        /\ img.pixels = <<>>
        /\ Rendered => (op.out = "ok" /\ op.evals = 0)

\* render has run on an image of no width and some height
C8_Witness ==
    Rendered /\ img.width = 0 /\ img.height > 0 /\ img.pixels = <<>>

Degenerate(ul, lr) == ul.re >= lr.re \/ ul.im <= lr.im

\* C9 as stated: a render with a viewport whose corners are equal or inverted
\* aborts and writes no pixel.
C9_DegenerateViewportAborts ==
    (Rendered /\ Degenerate(op.ul, op.lr) /\ img.width > 0 /\ img.height > 0) =>
        op.out = "panic"

\* C9 amended: a viewport whose corners are equal or inverted is not rejected
\* (pixel_to_point divides by the resolution only): render completes and
\* computes and writes every pixel, and with equal corners every pixel is the
\* colour of that one point.
C9_DegenerateViewportRenders ==
    (Rendered /\ Degenerate(op.ul, op.lr)) =>
        /\ op.out = "ok"
        /\ Len(img.pixels) = img.width * img.height
        /\ op.evals = img.width * img.height
        /\ op.ul = op.lr =>
              \A k \in 1..Len(img.pixels) :
                  Ok(img.pixels[k]) = escape_color(PixelType, op.ul)

\* a non-empty image rendered over a viewport with inverted corners
C9_Witness ==
    /\ Rendered /\ op.out = "ok" /\ Len(img.pixels) > 0
    /\ op.ul.re > op.lr.re /\ op.ul.im < op.lr.im

\* C10: indexing by row i returns the width entries from flat index i*width
\* when i < height and panics when i >= height, for every width >= 0.
C10_RowIndexChecked ==
    (op.name \in {"index", "index_mut"}) =>
        /\ op.row < img.height =>
              op.out = Ok([start |-> op.row * img.width,
                           data |-> [k \in 1..img.width |->
                                        img.pixels[op.row * img.width + k]]])
        /\ op.row >= img.height => op.out = Panic

\* ---------------------------------------------------- claims: the band block

\* the buffer the band block produces for a worker count: every band's pixels
banded_pixels(im, threads, upper_left, lower_right) ==
    LET p == partition(im, threads, upper_left, lower_right).val
    IN [k \in 1..Len(im.pixels) |->
          LET i == CHOOSE j \in 1..Len(p) : p[j].start < k /\ k <= p[j].start + p[j].len
          IN band_pixel(p[i], k - 1 - p[i].start).val]

\* C2: whatever the worker count and the order the bands run in, the buffer
\* is pixel for pixel the one a single band over the whole image produces.
C2_WorkerCountIndependent ==
    (phase = "complete" /\ img.width > 0) =>
        img.pixels = banded_pixels(img, 1, job.upper_left, job.lower_right)

\* C3: for height, width and worker count > 0 the bands are consecutive row
\* ranges that are disjoint and cover [0, height); every entry of the buffer is
\* written at most once, by the worker of the band it lies in, and exactly
\* once when all workers have returned.
C3_BandsPartitionRows ==
    (img.width > 0 /\ img.height > 0 /\ phase # "unrendered") =>
        /\ phase \in {"rendering", "complete"}
        /\ Len(bands) > 0
        /\ bands[1].band.top = 0
        /\ bands[Len(bands)].band.top + bands[Len(bands)].band.height = img.height
        /\ \A i \in 1..Len(bands) :
              /\ bands[i].band.height > 0
              /\ bands[i].band.start = bands[i].band.top * img.width
              /\ bands[i].band.len = bands[i].band.height * img.width
              /\ i < Len(bands) =>
                    bands[i + 1].band.top = bands[i].band.top + bands[i].band.height
        /\ \A k \in 1..Len(writes) :
              /\ Len(writes[k]) <= 1
              /\ \A n \in 1..Len(writes[k]) :
                    LET b == bands[writes[k][n]].band
                    IN (k - 1) \div img.width \in b.top..(b.top + b.height - 1)
              /\ phase = "complete" => Len(writes[k]) = 1

\* three workers have each written their own band of one row
C3_Witness ==
    /\ phase = "complete" /\ Len(bands) = 3 /\ img.width = 2
    /\ \A k \in 1..Len(writes) : writes[k] = <<(k - 1) \div img.width + 1>>

====
